---- MODULE Spec2Model ----
(***************************************************************************)
(* State-machine model of the chat-message service (src/unnamed/part_000)  *)
(* and of the users controller (src/controllers/users-controller.js).      *)
(*                                                                         *)
(* The document store is modelled by two collections: `messages` (the      *)
(* ChatMessage collection, a message's _id being its index) and `users`.   *)
(* Every `await` of a handler whose interleaving matters is a step of its  *)
(* own; the aggregation pipelines are operators, one per stage.            *)
(*                                                                         *)
(* Five specifications share the state:                                    *)
(*   SpecRoom     createChatMessage and getLatestChatMessagesByRoom        *)
(*   SpecNotify   createChatMessage, setMessageRead and                    *)
(*                getLatestChatMessagesByUserId                            *)
(*   SpecRead     concurrent setMessageRead calls under a running clock    *)
(*   SpecProfile  concurrent saveAdditionalInformation and                 *)
(*                saveAcceptConditions requests, await by await            *)
(*   SpecCtl      the other handlers of the users controller, one request  *)
(*                at a time, each awaited call resolving or rejecting      *)
(* Message text, payload, and the user fields name, phone and              *)
(* profilePicture are carried through unchanged by the code and are left   *)
(* out of the documents.                                                   *)
(***************************************************************************)
EXTENDS Integers, Sequences, FiniteSets, TLC

VARIABLES
    messages,   \* ChatMessage collection: sequence of documents, _id = index
    now,        \* the wall clock read by `new Date()`
    readReq,    \* setMessageRead calls in flight, one per caller slot
    markedRead, \* ids on which a setMessageRead call has succeeded
    chatResp,   \* what the last chat query made since the collection last
                \* changed resolved to (an observation, not program state)
    users,      \* User collection: user id -> document
    profReq,    \* saveAdditionalInformation / saveAcceptConditions in flight
    rewardCalls,\* user id -> number of userService.rewardRefUser calls made
                \* for that user
    lastResp    \* how the last finished controller request ended

vars == <<messages, now, readReq, markedRead, chatResp, users, profReq,
          rewardCalls, lastResp>>

chatVars == <<messages, now, readReq, markedRead, chatResp>>
userVars == <<users, profReq, rewardCalls, lastResp>>

----------------------------------------------------------------------------
(* Bounds of the model *)

MaxMsgs == 2      \* messages the collection may hold
MaxDate == 1      \* message dates range over 0..MaxDate
MaxLimit == 2     \* `limit` arguments range over 0..MaxLimit
MaxSkip == 2      \* `skip` arguments range over 0..MaxSkip
MaxTime == 1      \* the clock ranges over 0..MaxTime
MaxRewards == 2   \* rewardRefUser calls counted per user
MaxWon == 1       \* amountWon ranges over 0..MaxWon

----------------------------------------------------------------------------
(* Values *)

UserIds == {"u1", "u2"}
NoSuchUser == "u9"                 \* an id no user document carries
RoomIds == {"r1", "r2"}
CHAT_MESSAGE == "CHAT_MESSAGE"     \* the type of a plain room message
notificationsTypes == {"NOTIFICATION"}
MessageTypes == notificationsTypes \cup {CHAT_MESSAGE}
NoRead == -1                       \* the `read` field does not exist
Unset == <<"undefined">>           \* a string field that does not exist
Flags == {"true", "false", "unset"}

Min(a, b) == IF a < b THEN a ELSE b

Truthy(flag) == flag = "true"

\* The length of the window [skip, skip + limit) of a list of `total` items.
PageLength(total, limit, skip) ==
    IF skip < total THEN Min(limit, total - skip) ELSE 0

----------------------------------------------------------------------------
(* The ChatMessage aggregation pipelines, stage by stage *)

\* A stored message as the pipeline sees it: its fields and its _id.
Doc(i) ==
    [_id |-> i, roomId |-> messages[i].roomId, userId |-> messages[i].userId,
     type |-> messages[i].type, date |-> messages[i].date,
     read |-> messages[i].read]

\* $match { roomId }
MatchRoom(roomId) ==
    {i \in DOMAIN messages : messages[i].roomId = roomId}

\* A faulty $match of the user query: the read filter is missing.
MatchUnread_NoReadFilter(userId) ==
    {i \in DOMAIN messages :
        /\ messages[i].userId = userId
        /\ messages[i].type \in notificationsTypes}

\* $match { userId, read: { $exists: false }, type: { $in: notificationsTypes } }
MatchUnread(userId) ==
    {i \in DOMAIN messages :
        /\ messages[i].userId = userId
        /\ messages[i].read = NoRead
        /\ messages[i].type \in notificationsTypes}

Perms(S) ==
    {p \in [1..Cardinality(S) -> S] :
        \A i, j \in 1..Cardinality(S) : i # j => p[i] # p[j]}

\* $sort { date: -1 }: every order of the matched ids with dates descending;
\* the store fixes no order among messages of equal date.
SortDateDesc(S) ==
    {p \in Perms(S) :
        \A i \in 1..(Cardinality(S) - 1) :
            messages[p[i]].date >= messages[p[i + 1]].date}

\* $lookup from users on userId = _id: the array of matching users.
Lookup(doc) ==
    IF doc.userId \in DOMAIN users THEN <<users[doc.userId]>> ELSE <<>>

\* A faulty $skip, off by one: the page starts one document late.
Skip_OffByOne(docs, n) == SubSeq(docs, n + 2, Len(docs))

\* $skip
Skip(docs, n) == SubSeq(docs, n + 1, Len(docs))

\* $limit (the stage is applied to a positive n only)
Limit(docs, n) == SubSeq(docs, 1, Min(n, Len(docs)))

\* $group { _id: null, count: { $sum: 1 } }: one document per group, so none
\* for an empty input.
GroupCount(docs) ==
    IF Len(docs) = 0 THEN <<>> ELSE <<[count |-> Len(docs)]>>

\* $project of the room query; user is the first looked-up user's snapshot
\* ($arrayElemAt of an empty array yields no value, so no field is set).
ProjectRoom(doc) ==
    [_id |-> doc._id, userId |-> doc.userId, roomId |-> doc.roomId,
     type |-> doc.type, date |-> doc.date,
     user |-> IF Len(Lookup(doc)) = 0
              THEN [username |-> Unset]
              ELSE [username |-> Lookup(doc)[1].username]]

\* $project of the user query: message fields only.
ProjectUser(doc) ==
    [_id |-> doc._id, userId |-> doc.userId, roomId |-> doc.roomId,
     type |-> doc.type, date |-> doc.date]

\* $facet, $unwind '$total', the closing $project, and items[0].
\* `data` is the projected page; $unwind yields one document per element of
\* total, hence none when total is empty.
FacetResult(docs, data) ==
    LET total == GroupCount(docs)
        items == [k \in 1..Len(total) |->
                     [kind |-> "doc", total |-> total[k].count, data |-> data]]
    IN  IF Len(items) = 0 THEN [kind |-> "undefined"] ELSE items[1]

\* getLatestChatMessagesByRoom; `ord` is the order the $sort stage produced.
\* The store rejects the pipeline when $limit is not positive.
getLatestChatMessagesByRoom(roomId, limit, skip, ord) ==
    LET docs == [k \in 1..Len(ord) |-> Doc(ord[k])]
        page == Limit(Skip(docs, skip), limit)
    IN  IF limit = 0
        THEN [kind |-> "error"]
        ELSE FacetResult(docs, [k \in 1..Len(page) |-> ProjectRoom(page[k])])

\* getLatestChatMessagesByUserId
getLatestChatMessagesByUserId(userId, limit, skip, ord) ==
    LET docs == [k \in 1..Len(ord) |-> Doc(ord[k])]
        page == Limit(Skip(docs, skip), limit)
    IN  IF limit = 0
        THEN [kind |-> "error"]
        ELSE FacetResult(docs, [k \in 1..Len(page) |-> ProjectUser(page[k])])

----------------------------------------------------------------------------
(* Chat operations *)

NoResp == [op |-> "none"]

\* createChatMessage(data): the record is inserted as given.
createChatMessage(data) ==
    /\ Len(messages) < MaxMsgs
    /\ messages' = Append(messages,
            [roomId |-> data.roomId, userId |-> data.userId,
             type |-> data.type, date |-> data.date, read |-> NoRead])
    /\ chatResp' = NoResp
    /\ UNCHANGED <<now, readReq, markedRead, userVars>>

RoomQuery(roomId, limit, skip) ==
    /\ \E ord \in SortDateDesc(MatchRoom(roomId)) :
         chatResp' = [op |-> "byRoom", arg |-> roomId, limit |-> limit,
                      skip |-> skip,
                      result |-> getLatestChatMessagesByRoom(roomId, limit, skip, ord)]
    /\ UNCHANGED <<messages, now, readReq, markedRead, userVars>>

UserQuery(userId, limit, skip) ==
    /\ \E ord \in SortDateDesc(MatchUnread(userId)) :
         chatResp' = [op |-> "byUser", arg |-> userId, limit |-> limit,
                      skip |-> skip,
                      result |-> getLatestChatMessagesByUserId(userId, limit, skip, ord)]
    /\ UNCHANGED <<messages, now, readReq, markedRead, userVars>>

\* The clock advances.
Tick ==
    /\ now < MaxTime
    /\ now' = now + 1
    /\ UNCHANGED <<messages, readReq, markedRead, chatResp, userVars>>

\* A faulty authorization test: the owner is not let through.
MayMutate_AdminOnly(requestingUser, message) ==
    Truthy(requestingUser.admin)

\* The authorization test of setMessageRead, as the code negates it.
MayMutate(requestingUser, message) ==
    Truthy(requestingUser.admin) \/ message.userId = requestingUser._id

Callers == {"c1", "c2"}
Requesters == [_id : UserIds, admin : Flags]
NoRequester == [_id |-> NoSuchUser, admin |-> "unset"]

IdleRead(outcome) ==
    [pc |-> "idle", messageId |-> 0, user |-> NoRequester, read |-> NoRead,
     outcome |-> outcome]

\* setMessageRead(messageId, requestingUser) is called.
SetMessageReadCall(c, messageId, requestingUser) ==
    /\ readReq[c].pc = "idle"
    /\ readReq' = [readReq EXCEPT ![c] =
            [pc |-> "find", messageId |-> messageId, user |-> requestingUser,
             read |-> NoRead, outcome |-> "pending"]]
    /\ UNCHANGED <<messages, now, markedRead, chatResp, userVars>>

\* ChatMessage.findById resolves; the two checks and `message.read = new
\* Date()` run before the next await.  The requester is not read again and
\* is dropped from the call.
SetMessageReadFind(c) ==
    LET r == readReq[c] IN
    /\ r.pc = "find"
    /\ readReq' = [readReq EXCEPT ![c] =
            IF r.messageId \notin DOMAIN messages
            THEN IdleRead("NotFound")
            ELSE IF ~MayMutate(r.user, messages[r.messageId])
            THEN IdleRead("Forbidden")
            ELSE [r EXCEPT !.pc = "save", !.read = now,
                           !.user = NoRequester]]
    /\ UNCHANGED <<messages, now, markedRead, chatResp, userVars>>

\* message.save() resolves: the modified path `read` is written.
SetMessageReadSave(c) ==
    LET r == readReq[c] IN
    /\ r.pc = "save"
    /\ messages' = [messages EXCEPT ![r.messageId].read = r.read]
    /\ markedRead' = markedRead \cup {r.messageId}
    /\ readReq' = [readReq EXCEPT ![c] = IdleRead("ok")]
    /\ chatResp' = NoResp
    /\ UNCHANGED <<now, userVars>>

----------------------------------------------------------------------------
(* User documents *)

NoWallet == "none"                 \* the walletAddress field does not exist
Wallets == {"0xA", "0xB"}

FreshUser ==
    [username |-> Unset, email |-> Unset, walletAddress |-> NoWallet,
     confirmed |-> FALSE, admin |-> "false", amountWon |-> 0,
     emailConfirmed |-> FALSE]

IdleProf == [pc |-> "idle"]
NoLast == [handler |-> "none", via |-> "none", status |-> 0]

InitUserSide(us) ==
    /\ users = us
    /\ profReq = [c \in Callers |-> IdleProf]
    /\ rewardCalls = [u \in UserIds |-> 0]
    /\ lastResp = NoLast

----------------------------------------------------------------------------
(* Strings *)

\* String.prototype.replace(' ', ''): the first space, if any, is removed.
RemoveFirstSpace(str) ==
    IF \E i \in 1..Len(str) : str[i] = " "
    THEN LET i == CHOOSE k \in 1..Len(str) :
                      str[k] = " " /\ \A j \in 1..(k - 1) : str[j] # " "
         IN  SubSeq(str, 1, i - 1) \o SubSeq(str, i + 1, Len(str))
    ELSE str

\* A string is truthy unless it is empty.
NonEmpty(str) == Len(str) > 0

----------------------------------------------------------------------------
(* saveAdditionalInformation and saveAcceptConditions, await by await *)

\* How a request ended: through res.json / res.send, through next(error), or
\* with the handler's promise rejected and nothing sent ("uncaught").
Ended(handler, via, status) ==
    [handler |-> handler, via |-> via, status |-> status]

\* Assigning a path of a loaded document marks it modified when the value
\* differs; save() writes the modified paths only.
Assign(r, field, value) ==
    [r EXCEPT !.doc = [@ EXCEPT ![field] = value],
              !.mod = IF r.doc[field] # value THEN @ \cup {field} ELSE @]

SaveDoc(r) ==
    [users EXCEPT ![r.uid] =
        [f \in DOMAIN users[r.uid] |->
            IF f \in r.mod THEN r.doc[f] ELSE users[r.uid][f]]]

Finish(c, handler, via, status) ==
    /\ profReq' = [profReq EXCEPT ![c] = IdleProf]
    /\ lastResp' = Ended(handler, via, status)

\* A body field the handler does not read again is dropped from the request.
Consumed(body, field) == [body EXCEPT ![field] = <<>>]

\* Where saveAdditionalInformation goes once the user is loaded or the
\* username is settled: the next await it reaches.
AfterLoad(body) ==
    IF NonEmpty(body.username) THEN "username"
    ELSE IF NonEmpty(body.email) THEN "email" ELSE "save"

AfterUsername(body) ==
    IF NonEmpty(body.email) THEN "email" ELSE "save"

\* The request arrives; validation errors end it, else getUserById resolves
\* (ok) or rejects.
SaiLoad(c, uid, body, valid, ok) ==
    /\ profReq[c].pc = "idle"
    /\ IF ~valid \/ ~ok
       THEN Finish(c, "saveAdditionalInformation", "next", 422)
       ELSE /\ profReq' = [profReq EXCEPT ![c] =
                    [pc |-> AfterLoad(body),
                     handler |-> "saveAdditionalInformation", uid |-> uid,
                     body |-> body, doc |-> users[uid], mod |-> {}]]
            /\ UNCHANGED lastResp
    /\ UNCHANGED <<users, rewardCalls, chatVars>>

\* User.findOne({ username }) resolves with a user that holds exactly the
\* given username, or with null.
SaiUsername(c, ok) ==
    LET r == profReq[c]
        holders == {v \in UserIds : users[v].username = r.body.username}
    IN
    /\ r.pc = "username"
    /\ r.handler = "saveAdditionalInformation"
    /\ \/ /\ ~ok
          /\ Finish(c, r.handler, "next", 422)
       \/ /\ ok
          /\ \E usernameUser \in holders : usernameUser # r.uid
          /\ Finish(c, r.handler, "next", 409)
       \/ /\ ok
          /\ holders = {} \/ r.uid \in holders
          /\ profReq' = [profReq EXCEPT ![c] =
                [Assign(r, "username", RemoveFirstSpace(r.body.username))
                    EXCEPT !.pc = AfterUsername(r.body),
                           !.body = Consumed(r.body, "username")]]
          /\ UNCHANGED lastResp
    /\ UNCHANGED <<users, rewardCalls, chatVars>>

\* sendConfirmMail, as the tail of the step that reaches it: it touches
\* nothing the handlers share, and either lets the request go on to saveUser
\* or ends it.
MailThenSave(c, r, mailOk) ==
    IF mailOk
    THEN /\ profReq' = [profReq EXCEPT ![c] = [r EXCEPT !.pc = "save"]]
         /\ UNCHANGED lastResp
    ELSE Finish(c, r.handler, "next", 422)

\* User.findOne({ email }) resolves; then rewardRefUserIfNotConfirmed
\* either awaits rewardRefUser or, for a confirmed user, returns at once.
SaiEmail(c, ok, mailOk) ==
    LET r == profReq[c]
        holders == {v \in UserIds : users[v].email = r.body.email}
        set == [Assign(r, "email", RemoveFirstSpace(r.body.email))
                    EXCEPT !.body = Consumed(r.body, "email")]
    IN
    /\ r.pc = "email"
    /\ \/ /\ ~ok
          /\ Finish(c, r.handler, "next", 422)
       \/ /\ ok
          /\ \E emailUser \in holders : emailUser # r.uid
          /\ Finish(c, r.handler, "next", 409)
       \/ /\ ok
          /\ holders = {} \/ r.uid \in holders
          /\ IF ~set.doc.confirmed
             THEN /\ profReq' = [profReq EXCEPT ![c] =
                                    [set EXCEPT !.pc = "reward"]]
                  /\ UNCHANGED lastResp
             ELSE MailThenSave(c, set, mailOk)
    /\ UNCHANGED <<users, rewardCalls, chatVars>>

\* rewardRefUserIfNotConfirmed past its test: userService.rewardRefUser is
\* invoked, then userService.createUser, then user.confirmed = true in
\* memory.  Either call may reject (callsOk); saveAdditionalInformation goes
\* on to sendConfirmMail, saveAcceptConditions to saveUser.
RewardRefUser(c, callsOk, mailOk) ==
    LET r == profReq[c]
        set == Assign(r, "confirmed", TRUE)
    IN
    /\ r.pc = "reward"
    /\ rewardCalls[r.uid] < MaxRewards
    /\ rewardCalls' = [rewardCalls EXCEPT ![r.uid] = @ + 1]
    /\ IF ~callsOk
       THEN Finish(c, r.handler, "next", 422)
       ELSE IF r.handler = "saveAdditionalInformation"
       THEN MailThenSave(c, set, mailOk)
       ELSE /\ profReq' = [profReq EXCEPT ![c] = [set EXCEPT !.pc = "save"]]
            /\ UNCHANGED lastResp
    /\ UNCHANGED <<users, chatVars>>

\* userService.saveUser(user) resolves, and the 201 response is sent, or it
\* rejects.
SaveUser(c, ok) ==
    LET r == profReq[c] IN
    /\ r.pc = "save"
    /\ IF ok
       THEN /\ users' = SaveDoc(r)
            /\ Finish(c, r.handler, "json", 201)
       ELSE /\ UNCHANGED users
            /\ Finish(c, r.handler, "next", 422)
    /\ UNCHANGED <<rewardCalls, chatVars>>

\* saveAcceptConditions: validation, then getUserById; an unconfirmed user
\* is rewarded for, and rewardRefUserIfNotConfirmed returns user.confirmed,
\* which is true either way, so saveUser follows.
SacLoad(c, uid, valid, ok) ==
    /\ profReq[c].pc = "idle"
    /\ IF ~valid \/ ~ok
       THEN Finish(c, "saveAcceptConditions", "next", 422)
       ELSE /\ profReq' = [profReq EXCEPT ![c] =
                    [pc |-> IF users[uid].confirmed THEN "save" ELSE "reward",
                     handler |-> "saveAcceptConditions", uid |-> uid,
                     body |-> [username |-> <<>>, email |-> <<>>],
                     doc |-> users[uid], mod |-> {}]]
            /\ UNCHANGED lastResp
    /\ UNCHANGED <<users, rewardCalls, chatVars>>

ProfileBodies ==
    [username : {<<>>, <<"a">>, <<"a", " ">>},
     email : {<<>>, <<"e">>}]

InitProfile ==
    /\ messages = <<>>
    /\ now = 0
    /\ readReq = [c \in Callers |-> IdleRead("none")]
    /\ markedRead = {}
    /\ chatResp = NoResp
    /\ InitUserSide([u \in UserIds |-> FreshUser])

NextProfile ==
    \/ \E c \in Callers, uid \in UserIds, body \in ProfileBodies,
          valid, ok \in BOOLEAN : SaiLoad(c, uid, body, valid, ok)
    \/ \E c \in Callers, ok \in BOOLEAN : SaiUsername(c, ok)
    \/ \E c \in Callers, ok, mailOk \in BOOLEAN : SaiEmail(c, ok, mailOk)
    \/ \E c \in Callers, callsOk, mailOk \in BOOLEAN :
            RewardRefUser(c, callsOk, mailOk)
    \/ \E c \in Callers, ok \in BOOLEAN : SaveUser(c, ok)
    \/ \E c \in Callers, uid \in UserIds, valid, ok \in BOOLEAN :
            SacLoad(c, uid, valid, ok)

SpecProfile == InitProfile /\ [][NextProfile]_vars

\* C5: no two distinct users hold the same username, and no two the same
\* email.
C5_UniqueUsernameAndEmail ==
    \A u, v \in UserIds :
        u # v =>
            /\ users[u].username = Unset \/ users[u].username # users[v].username
            /\ users[u].email = Unset \/ users[u].email # users[v].email

\* C9: userService.rewardRefUser is invoked at most once for a user.
C9_RewardedAtMostOnce ==
    \A u \in UserIds : rewardCalls[u] <= 1

----------------------------------------------------------------------------
(* The other handlers of the users controller, one request at a time.  The
   boolean arguments say whether the awaited store or service call resolves
   (TRUE) or rejects. *)

Respond(resp) ==
    /\ lastResp' = resp
    /\ UNCHANGED <<profReq, rewardCalls, chatVars>>

\* login: validation, then authService.doLogin inside try/catch.
login(valid, ok) ==
    /\ Respond(IF valid /\ ok THEN Ended("login", "json", 201)
               ELSE Ended("login", "next", 422))
    /\ UNCHANGED users

\* verfiySms: validation, then verifyLogin and generateJwt inside try/catch.
verfiySms(valid, ok) ==
    /\ Respond(IF valid /\ ok THEN Ended("verfiySms", "json", 201)
               ELSE Ended("verfiySms", "next", 422))
    /\ UNCHANGED users

\* bindWalletAddress.  The response expression reads `user`, which is
\* declared by `let` inside the `if (!walletUser)` block and so is not bound
\* where the response is built: evaluating it throws a ReferenceError inside
\* the try block, and the catch hands a 422 to next.
bindWalletAddress(uid, walletAddress, findOk, getOk, saveOk) ==
    LET holders == {v \in UserIds : users[v].walletAddress = walletAddress}
        h == "bindWalletAddress"
    IN
    \/ /\ walletAddress = ""
       /\ Respond(Ended(h, "next", 422))
       /\ UNCHANGED users
    \/ /\ walletAddress # ""
       /\ ~findOk
       /\ Respond(Ended(h, "next", 422))
       /\ UNCHANGED users
    \/ /\ walletAddress # ""
       /\ findOk
       /\ \E walletUser \in holders : walletUser # uid
       /\ Respond(Ended(h, "next", 409))
       /\ UNCHANGED users
    \/ /\ walletAddress # ""
       /\ findOk
       /\ holders = {}
       /\ users' = IF getOk /\ saveOk
                   THEN [users EXCEPT ![uid].walletAddress = walletAddress]
                   ELSE users
       /\ Respond(Ended(h, "next", 422))
    \/ /\ walletAddress # ""
       /\ findOk
       /\ uid \in holders
       /\ Respond(Ended(h, "next", 422))
       /\ UNCHANGED users

\* User.find({ username: { $exists: true } }): the matching users.
HasUsername == {u \in UserIds : users[u].username # Unset}

\* .sort({ amountWon: -1 }): every order with amountWon descending.
SortAmountWonDesc(S) ==
    {p \in Perms(S) :
        \A i \in 1..(Cardinality(S) - 1) :
            users[p[i]].amountWon >= users[p[i + 1]].amountWon}

\* .limit(limit).skip(skip) of a find query: skip first, then limit, a
\* limit of 0 meaning no limit.
FindWindow(ord, limit, skip) ==
    LET rest == SubSeq(ord, skip + 1, Len(ord))
    IN  IF limit = 0 THEN rest ELSE SubSeq(rest, 1, Min(limit, Len(rest)))

\* User.countDocuments(): called without a filter.
CountDocuments == Cardinality(UserIds)

\* getLeaderboard: no try/catch and no next; a rejected query rejects the
\* handler and nothing is sent.
getLeaderboard(limit, skip, findOk, countOk) ==
    /\ \E ord \in SortAmountWonDesc(HasUsername) :
        LET page == FindWindow(ord, limit, skip) IN
        Respond(IF findOk /\ countOk
                THEN [handler |-> "getLeaderboard", via |-> "json",
                      status |-> 200,
                      body |-> [total |-> CountDocuments,
                                users |-> [k \in 1..Len(page) |->
                                    [_id |-> page[k],
                                     username |-> users[page[k]].username,
                                     amountWon |-> users[page[k]].amountWon]],
                                limit |-> limit, skip |-> skip]]
                ELSE Ended("getLeaderboard", "uncaught", 0))
    /\ UNCHANGED users

\* getUserInfo: everything inside try/catch; a missing user makes `user.id`
\* throw there.
getUserInfo(userId, ok) ==
    /\ Respond(IF userId \in DOMAIN users /\ ok
               THEN Ended("getUserInfo", "json", 200)
               ELSE Ended("getUserInfo", "next", 422))
    /\ UNCHANGED users

getRefList(ok) ==
    /\ Respond(IF ok THEN Ended("getRefList", "json", 200)
               ELSE Ended("getRefList", "next", 422))
    /\ UNCHANGED users

\* getOpenBetsList, getTransactions, getAMMHistory: 404 without a user, else
\* the service call inside try/catch.
UserGuarded(handler, hasUser, ok) ==
    /\ Respond(IF ~hasUser THEN Ended(handler, "next", 404)
               ELSE IF ok THEN Ended(handler, "json", 200)
               ELSE Ended(handler, "next", 500))
    /\ UNCHANGED users

getOpenBetsList(hasUser, ok) == UserGuarded("getOpenBetsList", hasUser, ok)

getTransactions(hasUser, ok) == UserGuarded("getTransactions", hasUser, ok)

getAMMHistory(hasUser, ok) == UserGuarded("getAMMHistory", hasUser, ok)

EmailCode == "c0de"   \* the code mailed to a user

\* confirmEmail: no try/catch; getUserById and user.save are awaited bare,
\* and a missing user makes `user.emailConfirmed` throw.
confirmEmail(userId, code, valid, getOk, saveOk) ==
    LET h == "confirmEmail" IN
    \/ /\ ~valid
       /\ Respond(Ended(h, "send", 400))
       /\ UNCHANGED users
    \/ /\ valid
       /\ ~getOk \/ userId \notin DOMAIN users
       /\ Respond(Ended(h, "uncaught", 0))
       /\ UNCHANGED users
    \/ /\ valid /\ getOk /\ userId \in DOMAIN users
       /\ IF users[userId].emailConfirmed
          THEN Respond(Ended(h, "next", 403)) /\ UNCHANGED users
          ELSE IF code # EmailCode
          THEN Respond(Ended(h, "next", 422)) /\ UNCHANGED users
          ELSE IF saveOk
          THEN /\ users' = [users EXCEPT ![userId].emailConfirmed = TRUE]
               /\ Respond(Ended(h, "send", 200))
          ELSE Respond(Ended(h, "uncaught", 0)) /\ UNCHANGED users

resendConfirmEmail(ok) ==
    /\ Respond(IF ok THEN Ended("resendConfirmEmail", "send", 200)
               ELSE Ended("resendConfirmEmail", "next", 422))
    /\ UNCHANGED users

\* The guard of updateUser: the request is refused when this holds.
UpdateRefused(reqUser, userId) ==
    reqUser.admin = "false" /\ userId # reqUser._id

\* updateUser: the guard, then userService.updateUser inside try/catch.
updateUser(reqUser, userId, ok) ==
    /\ Respond([handler |-> "updateUser",
                via |-> IF UpdateRefused(reqUser, userId) \/ ~ok
                        THEN "next" ELSE "send",
                status |-> IF UpdateRefused(reqUser, userId) THEN 403
                           ELSE IF ok THEN 200 ELSE 422,
                by |-> reqUser, target |-> userId,
                serviceCalled |-> ~UpdateRefused(reqUser, userId)])
    /\ UNCHANGED users

\* Users as the controller finds them: with or without a username (each its
\* own), with some amount won.
CtlUsers ==
    {us \in [UserIds -> [username : {Unset, <<"a">>, <<"b">>}, email : {Unset},
                         walletAddress : {NoWallet}, confirmed : {FALSE},
                         admin : {"false"}, amountWon : 0..MaxWon,
                         emailConfirmed : {FALSE}]] :
        /\ us["u1"].username \in {Unset, <<"a">>}
        /\ us["u2"].username \in {Unset, <<"b">>}}

InitCtl ==
    /\ messages = <<>>
    /\ now = 0
    /\ readReq = [c \in Callers |-> IdleRead("none")]
    /\ markedRead = {}
    /\ chatResp = NoResp
    /\ \E us \in CtlUsers : InitUserSide(us)

NextCtl ==
    \/ \E valid, ok \in BOOLEAN : login(valid, ok)
    \/ \E valid, ok \in BOOLEAN : verfiySms(valid, ok)
    \/ \E uid \in UserIds, w \in Wallets \cup {""},
          findOk, getOk, saveOk \in BOOLEAN :
            bindWalletAddress(uid, w, findOk, getOk, saveOk)
    \/ \E limit \in 1..MaxLimit, skip \in 0..MaxSkip,
          findOk, countOk \in BOOLEAN :
            getLeaderboard(limit, skip, findOk, countOk)
    \/ \E userId \in UserIds \cup {NoSuchUser}, ok \in BOOLEAN :
            getUserInfo(userId, ok)
    \/ \E ok \in BOOLEAN : getRefList(ok)
    \/ \E hasUser, ok \in BOOLEAN : getOpenBetsList(hasUser, ok)
    \/ \E hasUser, ok \in BOOLEAN : getTransactions(hasUser, ok)
    \/ \E hasUser, ok \in BOOLEAN : getAMMHistory(hasUser, ok)
    \/ \E userId \in UserIds \cup {NoSuchUser}, code \in {EmailCode, "wrong"},
          valid, getOk, saveOk \in BOOLEAN :
            confirmEmail(userId, code, valid, getOk, saveOk)
    \/ \E ok \in BOOLEAN : resendConfirmEmail(ok)
    \/ \E reqUser \in Requesters, userId \in UserIds, ok \in BOOLEAN :
            updateUser(reqUser, userId, ok)

SpecCtl == InitCtl /\ [][NextCtl]_vars

\* C6: the leaderboard response holds the window [skip, skip + limit) of the
\* users that have a username, sorted by amountWon descending, and a total
\* equal to the number of users that have a username.
C6_LeaderboardWindowAndTotal ==
    (lastResp.handler = "getLeaderboard" /\ lastResp.via = "json") =>
        LET b == lastResp.body IN
        /\ b.total = Cardinality(HasUsername)
        /\ Len(b.users) = PageLength(Cardinality(HasUsername), b.limit, b.skip)
        /\ \A k \in DOMAIN b.users : b.users[k]._id \in HasUsername
        /\ \A k \in 1..(Len(b.users) - 1) :
                b.users[k].amountWon >= b.users[k + 1].amountWon

\* C7: no request of the users controller ends with a failure escaping its
\* handler: each ends in an error handed to next or in a response.
C7_NoFailureEscapes ==
    lastResp.via # "uncaught"

\* C8: a bindWalletAddress request that changes a stored walletAddress ends
\* with the 201 response; one that ends with an error changes none.
C8_BindErrorLeavesStore ==
    [][(\E u \in UserIds : users'[u].walletAddress # users[u].walletAddress)
            => (lastResp'.handler = "bindWalletAddress" /\ lastResp'.status = 201)]_vars

\* C10: userService.updateUser is called only for a requester who is an admin
\* or who is the target.
C10_UpdateOnlyWhenAuthorized ==
    (lastResp.handler = "updateUser" /\ lastResp.serviceCalled) =>
        \/ lastResp.by.admin = "true"
        \/ lastResp.target = lastResp.by._id

----------------------------------------------------------------------------
(* The chat service *)

\* u1 has completed its profile, u2 has not.
ChatUsers ==
    [u \in UserIds |->
        IF u = "u1" THEN [FreshUser EXCEPT !.username = <<"a">>] ELSE FreshUser]

InitChat ==
    /\ messages = <<>>
    /\ now = 0
    /\ readReq = [c \in Callers |-> IdleRead("none")]
    /\ markedRead = {}
    /\ chatResp = NoResp
    /\ InitUserSide(ChatUsers)

\* Room queries: messages of both rooms, of a known and of an unknown sender,
\* with equal and with different dates.
RoomData ==
    [roomId : RoomIds, userId : {"u1", NoSuchUser}, type : {CHAT_MESSAGE},
     date : 0..MaxDate]

NextRoom ==
    \/ \E data \in RoomData : createChatMessage(data)
    \/ \E r \in RoomIds, limit \in 1..MaxLimit, skip \in 0..MaxSkip :
            RoomQuery(r, limit, skip)
    \/ \E r \in RoomIds, skip \in 0..MaxSkip : RoomQuery(r, 0, skip)

SpecRoom == InitChat /\ [][NextRoom]_vars

\* Notification queries: messages of either type and of either user, marked
\* read by their owner or an admin, one call at a time.
NotifyData ==
    [roomId : {"r1"}, userId : UserIds, type : MessageTypes, date : {0}]

NextNotify ==
    \/ \E data \in NotifyData : createChatMessage(data)
    \/ \E u \in UserIds, limit \in 0..MaxLimit, skip \in 0..MaxSkip :
            UserQuery(u, limit, skip)
    \/ \E id \in 1..MaxMsgs, u \in [_id : UserIds, admin : {"false"}] :
            SetMessageReadCall("c1", id, u)
    \/ SetMessageReadFind("c1")
    \/ SetMessageReadSave("c1")

SpecNotify == InitChat /\ [][NextNotify]_vars

\* Read markers: concurrent setMessageRead calls by owners, strangers and
\* admins while the clock advances.
ReadData ==
    [roomId : {"r1"}, userId : UserIds, type : {"NOTIFICATION"}, date : {0}]

NextRead ==
    \/ \E data \in ReadData : createChatMessage(data)
    \/ Tick
    \/ \E c \in Callers, id \in 1..MaxMsgs, u \in Requesters :
            SetMessageReadCall(c, id, u)
    \/ \E c \in Callers : SetMessageReadFind(c)
    \/ \E c \in Callers : SetMessageReadSave(c)

SpecRead == InitChat /\ [][NextRead]_vars

----------------------------------------------------------------------------
(* Properties of the chat service *)

RoomTotal(roomId) == Cardinality(MatchRoom(roomId))

\* C1 as stated: for every room, store content (a room without messages
\* included) and non-negative limit and skip, getLatestChatMessagesByRoom
\* resolves to a result whose total is the number of the room's messages and
\* whose data has length min(limit, total - skip), or 0 when skip >= total.
C1_AnyRoomAnyWindow ==
    chatResp.op = "byRoom" =>
        /\ chatResp.result.kind = "doc"
        /\ chatResp.result.total = RoomTotal(chatResp.arg)
        /\ Len(chatResp.result.data) =
                PageLength(RoomTotal(chatResp.arg), chatResp.limit, chatResp.skip)

\* C1 amended: for a room with at least one message and a positive limit the
\* result's total is the number of the room's messages, whatever the window,
\* and its data has length min(limit, total - skip), or 0 when skip >= total;
\* for a room without messages (and a positive limit) the call resolves to
\* undefined, a result with neither data nor total.
C1_NonEmptyRoomWindow ==
    (chatResp.op = "byRoom" /\ chatResp.limit >= 1) =>
        IF RoomTotal(chatResp.arg) = 0
        THEN chatResp.result.kind = "undefined"
        ELSE /\ chatResp.result.kind = "doc"
             /\ chatResp.result.total = RoomTotal(chatResp.arg)
             /\ Len(chatResp.result.data) =
                    PageLength(RoomTotal(chatResp.arg), chatResp.limit,
                               chatResp.skip)

\* C1 witness: a room of two messages asked for the window limit 2, skip 1
\* answers total 2 with a page of one message.
C1_Witness ==
    /\ chatResp.op = "byRoom"
    /\ chatResp.limit = 2
    /\ chatResp.skip = 1
    /\ chatResp.result.kind = "doc"
    /\ chatResp.result.total = 2
    /\ Len(chatResp.result.data) = 1

\* C2: setMessageRead ends in one of three ways.  When findById resolves:
\* an unknown id ends the call with NotFound; a known message and a
\* requester who is neither admin nor owner ends it with Forbidden; both
\* leave every message as it was; any other requester goes on to save a
\* timestamp.  When the save resolves the call has succeeded, the addressed
\* message carries a timestamp and no other message has changed.  No step
\* takes a read marker away.
C2_Step(c) ==
    LET r == readReq[c]
        after == readReq'[c]
        known == r.messageId \in DOMAIN messages
        authorized == \/ r.user.admin = "true"
                      \/ messages[r.messageId].userId = r.user._id
    IN  /\ (r.pc = "find" /\ after.pc # "find") =>
            /\ messages' = messages
            /\ ~known => after.pc = "idle" /\ after.outcome = "NotFound"
            /\ (known /\ ~authorized) =>
                    after.pc = "idle" /\ after.outcome = "Forbidden"
            /\ (known /\ authorized) =>
                    after.pc = "save" /\ after.read # NoRead
        /\ (r.pc = "save" /\ after.pc # "save") =>
            /\ after.pc = "idle" /\ after.outcome = "ok"
            /\ DOMAIN messages' = DOMAIN messages
            /\ messages'[r.messageId].read # NoRead
            /\ \A j \in DOMAIN messages :
                    j # r.messageId => messages'[j] = messages[j]

C2_ThreeOutcomes ==
    [][/\ \A c \in Callers : C2_Step(c)
       /\ \A i \in DOMAIN messages :
            messages[i].read # NoRead => messages'[i].read # NoRead]_vars

\* C2 witness: one call has ended Forbidden and left its message unread,
\* another has succeeded on a different message.
C2_Witness ==
    /\ readReq["c1"].outcome = "Forbidden"
    /\ readReq["c2"].outcome = "ok"
    /\ \E i, j \in DOMAIN messages :
            messages[i].read = NoRead /\ messages[j].read # NoRead

\* C3: a message's read timestamp is set at most once: once it is set, no
\* later successful setMessageRead call changes it.
C3_ReadSetOnce ==
    [][\A i \in DOMAIN messages :
            messages[i].read # NoRead => messages'[i].read = messages[i].read]_vars

\* C4: every message getLatestChatMessagesByUserId returns belongs to the
\* user asked for, has no read marker, has a notification type, and is none
\* of the messages a setMessageRead call has succeeded on.
C4_UnreadNotificationsOnly ==
    (chatResp.op = "byUser" /\ chatResp.result.kind = "doc") =>
        \A k \in DOMAIN chatResp.result.data :
            LET d == chatResp.result.data[k] IN
            /\ d.userId = chatResp.arg
            /\ messages[d._id].userId = chatResp.arg
            /\ messages[d._id].read = NoRead
            /\ d.type \in notificationsTypes
            /\ d._id \notin markedRead

\* C4 witness: the user has a notification marked read and an unread one, and
\* the query returned a page.
C4_Witness ==
    /\ chatResp.op = "byUser"
    /\ chatResp.result.kind = "doc"
    /\ Len(chatResp.result.data) >= 1
    /\ \E i \in markedRead :
            /\ messages[i].userId = chatResp.arg
            /\ messages[i].type \in notificationsTypes

====
